---- MODULE Spec2Model ----
(***************************************************************************)
(* Model of dmalt/permute: the adjacency graph, its connected components,  *)
(* the masked spatio-temporal graph builder (graphs.py) and the            *)
(* permutation-test driver (stats.py).                                     *)
(***************************************************************************)
EXTENDS Integers, Sequences, FiniteSets, TLC

\* ------------------------------------------------------------------ bounds
\* Largest vertex count of a Graph explored by Spec / SpecAnyIndex.
MaxVerts == 3

\* Largest mask explored by SpecMasked (besides the test fixtures).
MaxTimes == 3

MaxSpaces == 2

\* Statistic values of the driver run range over -MaxStat .. MaxStat,
\* thresholds over -MaxThresh .. MaxThresh, n_perm over 1 .. MaxPerm.
MaxStat == 1

MaxThresh == 1

MaxPerm == 2

\* Cell values of SpecThreshold range over -MaxCellStat .. MaxCellStat.
MaxCellStat == 2

\* Regressor tables of SpecShuffle: up to MaxRows rows in groups 1 .. MaxGroups.
MaxRows == 4

MaxGroups == 2

\* Maps of SpecAssemble: up to MaxMapTimes x MaxMapSpaces cells, statistic
\* values 0 .. MaxTVal.
MaxMapTimes == 2

MaxMapSpaces == 2

MaxTVal == 1

\* ----------------------------------------------------------------- helpers
Abs(x) == IF x < 0 THEN -x ELSE x

MinOf(S) == CHOOSE x \in S : \A y \in S : x <= y

\* Ascending sequence of the members of a finite set of integers.
RECURSIVE SortedSeq(_)
SortedSeq(S) ==
    IF S = {} THEN <<>> ELSE <<MinOf(S)>> \o SortedSeq(S \ {MinOf(S)})

Range(s) == {s[i] : i \in DOMAIN s}

\* ------------------------------------------------------------------- state
VARIABLES
    graph,      \* Graph object: _V, _E and the non-zero cells of _adj
    cc,         \* CC object: _count, _id (count = 0: no CC constructed)
    last,       \* the last call made on graph / cc and how it ended
    added,      \* history: the unordered vertex pairs add_edge was called on
    spatial_adjacency,  \* builder input: non-zero cells of the spatial matrix
    mask,       \* builder input: n_times x n_spaces array over {-1, 0, 1}
    mstag,      \* the MaskedSpatioTemporalAdjacencyGraph object
    mscc,       \* CC(mstag)
    pcBuild,    \* "new", "built", "ValueError" or "clustered"
    tail,       \* driver option: 1, -1 or 0
    thresh,     \* driver option: clustering threshold
    t_map,      \* find_clusters: the statistic map of one key
    thr_mask,   \* find_clusters: the mask built from t_map
    pcThr,      \* "new" or "masked"
    adjacency,  \* driver input: spatial adjacency of the data's sensors
    n_perm,     \* driver option: number of permutations
    i_perm,     \* permutations completed
    cluster_stats_orig,  \* per key, the observed cluster statistics
    cluster_stats,       \* per key, those of the latest permutation
    cluster_stats_H0,    \* per key, the null distribution
    pvalues,    \* per key, one p-value per observed cluster
    pc,         \* driver phase
    regressors, \* the regressor table: the group key of each row
    regressors_perm,     \* the permuted table: the original row at each position
    pcShuffle,  \* "new" or "permuted"
    data_shape, \* (n_times, n_spaces) of the data of one map evaluation
    stat_fun,   \* what the statistic function returns for each cell
    completed,  \* the tasks the workers have finished, in completion order
    t_maps,     \* per key, the assembled statistic map
    pcAsm       \* "running" or "assembled"

varsGraph == <<graph, cc, last, added>>

varsMasked == <<spatial_adjacency, mask, mstag, mscc, pcBuild>>

varsThr == <<t_map, thr_mask, pcThr>>

varsOpt == <<tail, thresh>>

varsDriver == <<adjacency, n_perm, i_perm, cluster_stats_orig, cluster_stats,
                cluster_stats_H0, pvalues, pc>>

varsShuffle == <<regressors, regressors_perm, pcShuffle>>

varsAsm == <<data_shape, stat_fun, completed, t_maps, pcAsm>>

vars == <<varsGraph, varsMasked, varsThr, varsOpt, varsDriver, varsShuffle,
          varsAsm>>

\* What the actions of one component leave alone.
varsNotGraph ==
    <<varsMasked, varsThr, varsOpt, varsDriver, varsShuffle, varsAsm>>

varsNotMasked ==
    <<varsGraph, varsThr, varsOpt, varsDriver, varsShuffle, varsAsm>>

varsNotThr == <<varsGraph, varsMasked, varsDriver, varsShuffle, varsAsm>>

varsNotDriver == <<varsGraph, varsMasked, varsThr, varsShuffle, varsAsm>>

varsNotShuffle ==
    <<varsGraph, varsMasked, varsThr, varsOpt, varsDriver, varsAsm>>

varsNotAsm ==
    <<varsGraph, varsMasked, varsThr, varsOpt, varsDriver, varsShuffle>>

\* ------------------------------------------------------------ class Graph
\* Graph.__init__ for n_verts > 0: an empty n_verts x n_verts lil_matrix.
Graph(n_verts) == [V |-> n_verts, E |-> 0, adj |-> {}]

\* Integer indexing of a lil_matrix / ndarray axis of length n: an index in
\* -n .. n-1 is accepted (a negative one counts from the end), any other
\* raises IndexError.
InBounds(i, n) == -n <= i /\ i < n

WrapIndex(i, n) == IF i < 0 THEN i + n ELSE i

\* Variant of add_edge that stores only the cell (v, w).
add_edge_one_way(g, v, w) ==
    IF <<v, w>> \notin g.adj /\ <<w, v>> \notin g.adj
    THEN [g EXCEPT !.adj = @ \cup {<<v, w>>}, !.E = @ + 1]
    ELSE g

\* Variant of add_edge without the duplicate check.
add_edge_unchecked(g, v, w) ==
    [g EXCEPT !.adj = @ \cup {<<v, w>>, <<w, v>>}, !.E = @ + 1]

\* Graph.add_edge on indices already resolved to 0 .. V-1.
add_edge(g, v, w) ==
    IF <<v, w>> \notin g.adj /\ <<w, v>> \notin g.adj
    THEN [g EXCEPT !.adj = @ \cup {<<v, w>>, <<w, v>>}, !.E = @ + 1]
    ELSE g

\* Graph.adj(v): _adj.rows[v], the column indices of row v in ascending order.
adj(g, v) == SortedSeq({w \in 0 .. g.V - 1 : <<v, w>> \in g.adj})

\* --------------------------------------------------------------- class CC
\* Vertices reached from `frontier` along stored entries, read in both
\* directions (directed=False).
RECURSIVE Reach(_, _, _, _)
Reach(frontier, seen, A, n) ==
    IF frontier = {} THEN seen
    ELSE LET nxt == {w \in 0 .. n - 1 :
                        \E v \in frontier : <<v, w>> \in A \/ <<w, v>> \in A}
                    \ seen
         IN  Reach(nxt, seen \cup nxt, A, n)

\* Labelling loop that numbers components from the highest vertex down.
RECURSIVE LabelDown(_, _, _, _, _)
LabelDown(v, A, n, labels, label) ==
    IF v < 0 THEN [count |-> label, id |-> labels]
    ELSE IF v \in DOMAIN labels THEN LabelDown(v - 1, A, n, labels, label)
    ELSE LET comp == Reach({v}, {v}, A, n)
         IN  LabelDown(v - 1, A, n,
                       [u \in (DOMAIN labels) \cup comp |->
                           IF u \in comp THEN label ELSE labels[u]],
                       label + 1)

connected_components_down(A, n) == LabelDown(n - 1, A, n, <<>>, 0)

\* The labelling loop of connected_components: vertices 0 .. n-1 in order,
\* an unlabelled vertex starts a traversal that gives its whole component
\* the next label.
RECURSIVE Label(_, _, _, _, _)
Label(v, A, n, labels, label) ==
    IF v = n THEN [count |-> label, id |-> labels]
    ELSE IF v \in DOMAIN labels THEN Label(v + 1, A, n, labels, label)
    ELSE LET comp == Reach({v}, {v}, A, n)
         IN  Label(v + 1, A, n,
                   [u \in (DOMAIN labels) \cup comp |->
                       IF u \in comp THEN label ELSE labels[u]],
                   label + 1)

\* connected_components(graph.get_adj_matrix(), directed=False,
\* return_labels=True) as called by CC.__init__.
connected_components(A, n) == Label(0, A, n, <<>>, 0)

\* No CC object.
NoCC == [count |-> 0, id |-> <<>>]

\* CC.get_components: one list per id, vertices appended in enumerate order.
get_components(c) ==
    [i \in 1 .. c.count |-> SortedSeq({v \in DOMAIN c.id : c.id[v] = i - 1})]

\* --------------------------------------------------------- graph actions
NoCall == [op |-> "none", v |-> 0, w |-> 0, res |-> "ok", changed |-> FALSE]

InitGraph ==
    /\ graph = [V |-> 0, E |-> 0, adj |-> {}]
    /\ cc = NoCC
    /\ last = NoCall
    /\ added = {}

\* Graph(n_verts)
Create(n_verts) ==
    /\ graph.V = 0
    /\ last.op = "none"
    /\ IF n_verts <= 0
       THEN /\ last' = [NoCall EXCEPT !.op = "Graph", !.v = n_verts,
                                      !.res = "ValueError"]
            /\ UNCHANGED graph
       ELSE /\ graph' = Graph(n_verts)
            /\ last' = [NoCall EXCEPT !.op = "Graph", !.v = n_verts,
                                      !.changed = TRUE]
    /\ UNCHANGED <<varsNotGraph, cc, added>>

\* graph.add_edge(v, w)
AddEdge(v, w) ==
    /\ graph.V > 0
    /\ cc.count = 0
    /\ IF InBounds(v, graph.V) /\ InBounds(w, graph.V)
       THEN LET g2 == add_edge(graph, WrapIndex(v, graph.V),
                               WrapIndex(w, graph.V))
            IN  /\ graph' = g2
                /\ added' = added \cup {{WrapIndex(v, graph.V),
                                           WrapIndex(w, graph.V)}}
                /\ last' = [op |-> "add_edge", v |-> v, w |-> w, res |-> "ok",
                            changed |-> g2 # graph]
       ELSE /\ last' = [op |-> "add_edge", v |-> v, w |-> w,
                        res |-> "IndexError", changed |-> FALSE]
            /\ UNCHANGED <<varsNotGraph, graph, added>>
    /\ UNCHANGED <<varsNotGraph, cc>>

\* cc = CC(graph)
NewCC ==
    /\ graph.V > 0
    /\ cc.count = 0
    /\ cc' = connected_components(graph.adj, graph.V)
    /\ last' = [NoCall EXCEPT !.op = "CC", !.changed = TRUE]
    /\ UNCHANGED <<varsNotGraph, graph, added>>

\* cc.id(v): _id[v] of an ndarray of length V; the answer is kept in last.w.
Id(v) ==
    /\ cc.count > 0
    /\ last' = IF InBounds(v, graph.V)
               THEN [op |-> "id", v |-> v, w |-> cc.id[WrapIndex(v, graph.V)],
                     res |-> "ok", changed |-> FALSE]
               ELSE [op |-> "id", v |-> v, w |-> 0, res |-> "IndexError",
                     changed |-> FALSE]
    /\ UNCHANGED <<varsNotGraph, graph, cc, added>>

\* The CC object is dropped; the graph is extended further.
DropCC ==
    /\ cc.count > 0
    /\ cc' = NoCC
    /\ last' = [NoCall EXCEPT !.op = "del"]
    /\ UNCHANGED <<varsNotGraph, graph, added>>

\* --------------------------- class MaskedSpatioTemporalAdjacencyGraph
\* product(range(n_times), range(n_spaces)); also the row-major order in
\* which ndarray.nonzero() lists cells.
product(n_times, n_spaces) ==
    [k \in 1 .. n_times * n_spaces |->
        <<(k - 1) \div n_spaces, (k - 1) % n_spaces>>]

\* zip(*mask.nonzero()): the active cells in row-major order.
nonzero(m) ==
    SelectSeq(product(m.n_times, m.n_spaces), LAMBDA c : m.at[c] # 0)

\* _create_maps: linear index i <-> (time, space) of the i-th active cell.
create_maps(m) ==
    LET nz == nonzero(m)
    IN  [lin2mat |-> [i \in 0 .. Len(nz) - 1 |-> nz[i + 1]],
         mat2lin |-> [c \in Range(nz) |->
                         CHOOSE i \in 0 .. Len(nz) - 1 : nz[i + 1] = c]]

\* spatial_adjacency.rows[i_space]
rows(A, i_space, n_spaces) ==
    SortedSeq({v \in 0 .. n_spaces - 1 : <<i_space, v>> \in A})

\* The spatial loop of __init__ for vertex cur_vert, from position k of row.
RECURSIVE AddSpatial(_, _, _, _, _, _)
AddSpatial(g, maps, m, cur_vert, row, k) ==
    IF k > Len(row) THEN g
    ELSE LET i_time == maps.lin2mat[cur_vert][1]
             i_space == maps.lin2mat[cur_vert][2]
             v == row[k]
         IN  IF m.at[<<i_time, i_space>>] # m.at[<<i_time, v>>]
             THEN AddSpatial(g, maps, m, cur_vert, row, k + 1)
             ELSE AddSpatial(add_edge(g, cur_vert, maps.mat2lin[<<i_time, v>>]),
                             maps, m, cur_vert, row, k + 1)

\* Temporal neighbours joined whenever both cells are active, whatever
\* their sign.
AddTemporalAnyActive(g, maps, m, cur_vert) ==
    LET i_time == maps.lin2mat[cur_vert][1]
        i_space == maps.lin2mat[cur_vert][2]
        g1 == IF i_time > 0 /\ m.at[<<i_time - 1, i_space>>] # 0
              THEN add_edge(g, cur_vert, maps.mat2lin[<<i_time - 1, i_space>>])
              ELSE g
    IN  IF i_time < m.n_times - 1 /\ m.at[<<i_time + 1, i_space>>] # 0
        THEN add_edge(g1, cur_vert, maps.mat2lin[<<i_time + 1, i_space>>])
        ELSE g1

\* The two temporal neighbours of __init__ for vertex cur_vert.
AddTemporal(g, maps, m, cur_vert) ==
    LET i_time == maps.lin2mat[cur_vert][1]
        i_space == maps.lin2mat[cur_vert][2]
        cur_mask == m.at[<<i_time, i_space>>]
        g1 == IF i_time > 0 /\ m.at[<<i_time - 1, i_space>>] = cur_mask
              THEN add_edge(g, cur_vert, maps.mat2lin[<<i_time - 1, i_space>>])
              ELSE g
    IN  IF i_time < m.n_times - 1 /\ m.at[<<i_time + 1, i_space>>] = cur_mask
        THEN add_edge(g1, cur_vert, maps.mat2lin[<<i_time + 1, i_space>>])
        ELSE g1

\* for cur_vert in self._map_lin2mat: ...
RECURSIVE ScanVertices(_, _, _, _, _)
ScanVertices(g, maps, m, A, cur_vert) ==
    IF cur_vert = g.V THEN g
    ELSE LET row == rows(A, maps.lin2mat[cur_vert][2], m.n_spaces)
             g1 == AddSpatial(g, maps, m, cur_vert, row, 1)
         IN  ScanVertices(AddTemporal(g1, maps, m, cur_vert),
                          maps, m, A, cur_vert + 1)

\* MaskedSpatioTemporalAdjacencyGraph(spatial_adjacency, mask) for a mask
\* with at least one active cell.
MaskedSpatioTemporalAdjacencyGraph(A, m) ==
    LET maps == create_maps(m)
        g == ScanVertices(Graph(Len(nonzero(m))), maps, m, A, 0)
    IN  [V |-> g.V, E |-> g.E, adj |-> g.adj,
         map_lin2mat |-> maps.lin2mat, map_mat2lin |-> maps.mat2lin]

NoMstag ==
    [V |-> 0, E |-> 0, adj |-> {}, map_lin2mat |-> <<>>, map_mat2lin |-> <<>>]

\* components2mat: each component as its (time, space) cells, in order.
components2mat(g, components) ==
    [i \in DOMAIN components |->
        [j \in DOMAIN components[i] |-> g.map_lin2mat[components[i][j]]]]

\* ---------------------------------------------------------------- stats
\* bool.astype(int)
astype_int(b) == IF b THEN 1 ELSE 0

\* Threshold test that also admits a value equal to the threshold.
mask_value_inclusive(x, thr, tl) ==
    IF tl = 1 THEN astype_int(x >= thr)
    ELSE IF tl = -1 THEN astype_int(x <= thr)
    ELSE astype_int(x >= thr) - astype_int(x <= -thr)

\* find_clusters: the mask entry of a cell whose statistic is x.
mask_value(x, thr, tl) ==
    IF tl = 1 THEN astype_int(x > thr)
    ELSE IF tl = -1 THEN astype_int(x < thr)
    ELSE astype_int(x > thr) - astype_int(x < -thr)

\* find_clusters: the mask of a statistic map of shape shp.
threshold_mask(tm, shp, thr, tl) ==
    [n_times |-> shp[1], n_spaces |-> shp[2],
     at |-> [c \in DOMAIN tm |-> mask_value(tm[c], thr, tl)]]

RECURSIVE SumOver(_, _, _)
SumOver(tm, cells, k) ==
    IF k > Len(cells) THEN 0 ELSE tm[cells[k]] + SumOver(tm, cells, k + 1)

\* compute_cluster_level_stats: stat_map[cluster].sum() per cluster.
compute_cluster_level_stats(stat_map, clusters) ==
    [i \in DOMAIN clusters |-> SumOver(stat_map, clusters[i], 1)]

\* find_clusters, second half, for one key: the cluster statistics of its
\* statistic map (the empty list when no cell passes the threshold).
find_clusters_key(tm, shp, A, thr, tl) ==
    LET m == threshold_mask(tm, shp, thr, tl)
    IN  IF nonzero(m) = <<>> THEN <<>>
        ELSE LET g == MaskedSpatioTemporalAdjacencyGraph(A, m)
                 comps == get_components(connected_components(g.adj, g.V))
             IN  compute_cluster_level_stats(tm, components2mat(g, comps))

\* max(...), min(...) and max(map(abs, ...)) of a non-empty list.
RECURSIVE py_max(_, _)
py_max(s, k) ==
    IF k = Len(s) THEN s[k]
    ELSE LET r == py_max(s, k + 1) IN IF r > s[k] THEN r ELSE s[k]

RECURSIVE py_min(_, _)
py_min(s, k) ==
    IF k = Len(s) THEN s[k]
    ELSE LET r == py_min(s, k + 1) IN IF r < s[k] THEN r ELSE s[k]

map_abs(s) == [i \in DOMAIN s |-> Abs(s[i])]

\* The two-tailed branch taking the plain maximum.
null_entry_no_abs(stats, tl) ==
    IF stats # <<>>
    THEN IF tl = 1 THEN py_max(stats, 1)
         ELSE IF tl = -1 THEN py_min(stats, 1)
         ELSE py_max(stats, 1)
    ELSE 0

\* The value one permutation appends to a key's null distribution.
null_entry(stats, tl) ==
    IF stats # <<>>
    THEN IF tl = 1 THEN py_max(stats, 1)
         ELSE IF tl = -1 THEN py_min(stats, 1)
         ELSE py_max(map_abs(stats), 1)
    ELSE 0

\* sum(...) of a generator of booleans.
RECURSIVE sum_bool(_, _)
sum_bool(flags, k) ==
    IF k > Len(flags) THEN 0
    ELSE astype_int(flags[k]) + sum_bool(flags, k + 1)

\* compute_cluster_p_value: the quotient is kept as numerator / denominator.
compute_cluster_p_value(cluster_stat, H0, tl) ==
    IF tl = 1
    THEN [num |-> sum_bool([i \in DOMAIN H0 |-> H0[i] > cluster_stat], 1),
          den |-> Len(H0)]
    ELSE IF tl = -1
    THEN [num |-> sum_bool([i \in DOMAIN H0 |-> H0[i] < cluster_stat], 1),
          den |-> Len(H0)]
    ELSE [num |-> sum_bool([i \in DOMAIN H0 |-> Abs(H0[i]) > cluster_stat], 1),
          den |-> Len(H0)]

\* keys: the regressors whose statistic is tracked.
keys == <<"confidence", "is_correct">>

Keys == Range(keys)

\* for key in keys: cluster_stats_H0[key].append(...), from position k.
RECURSIVE append_null_entries(_, _, _, _)
append_null_entries(H0, stats, k, tl) ==
    IF k > Len(keys) THEN H0
    ELSE append_null_entries(
             [H0 EXCEPT ![keys[k]] = Append(@, null_entry(stats[keys[k]], tl))],
             stats, k + 1, tl)

\* pvalues[key].append(compute_cluster_p_value(...)) for every key and
\* observed cluster.
aggregate(stats_orig, H0, tl) ==
    [key \in Keys |->
        [i \in DOMAIN stats_orig[key] |->
            compute_cluster_p_value(stats_orig[key][i], H0[key], tl)]]

\* ------------------------------------------------------- idle components
NoMask == [n_times |-> 0, n_spaces |-> 0, at |-> <<>>]

IdleGraph == InitGraph

IdleMasked ==
    /\ spatial_adjacency = {}
    /\ mask = NoMask
    /\ mstag = NoMstag
    /\ mscc = NoCC
    /\ pcBuild = "idle"

IdleThr == t_map = <<>> /\ thr_mask = <<>> /\ pcThr = "idle"

IdleOpt == tail = 0 /\ thresh = 0

IdleDriver ==
    /\ adjacency = {}
    /\ n_perm = 0
    /\ i_perm = 0
    /\ cluster_stats_orig = <<>>
    /\ cluster_stats = <<>>
    /\ cluster_stats_H0 = <<>>
    /\ pvalues = <<>>
    /\ pc = "idle"

IdleShuffle == regressors = <<>> /\ regressors_perm = <<>> /\ pcShuffle = "idle"

IdleAsm ==
    /\ data_shape = <<0, 0>>
    /\ stat_fun = <<>>
    /\ completed = <<>>
    /\ t_maps = <<>>
    /\ pcAsm = "idle"

\* ------------------------------------------------- Spec, SpecAnyIndex
Init ==
    /\ InitGraph
    /\ IdleMasked /\ IdleThr /\ IdleOpt /\ IdleDriver /\ IdleShuffle /\ IdleAsm

\* Calls whose vertex arguments respect the documented range 0 .. V-1.
Next ==
    \/ \E n_verts \in -1 .. MaxVerts : Create(n_verts)
    \/ \E v, w \in 0 .. graph.V - 1 : AddEdge(v, w)
    \/ NewCC
    \/ \E v \in 0 .. graph.V - 1 : Id(v)
    \/ DropCC

Spec == Init /\ [][Next]_vars

\* Calls with any integer vertex argument.
NextAnyIndex ==
    \/ \E n_verts \in -1 .. MaxVerts : Create(n_verts)
    \/ \E v, w \in -(MaxVerts + 1) .. MaxVerts : AddEdge(v, w)
    \/ NewCC
    \/ \E v \in -(MaxVerts + 1) .. MaxVerts : Id(v)
    \/ DropCC

SpecAnyIndex == Init /\ [][NextAnyIndex]_vars

\* ------------------------------------------------ properties of the graph
\* An edge of the graph joins v and u.
Joined(v, u) == <<v, u>> \in graph.adj \/ <<u, v>> \in graph.adj

\* A path of at most k edges joins v and w.
RECURSIVE PathWithin(_, _, _)
PathWithin(v, w, k) ==
    \/ v = w
    \/ /\ k > 0
       /\ \E u \in 0 .. graph.V - 1 : Joined(v, u) /\ PathWithin(u, w, k - 1)

PathJoins(v, w) == PathWithin(v, w, graph.V - 1)

\* The smallest vertex of v's component.
Leader(v) == MinOf({u \in 0 .. graph.V - 1 : PathJoins(v, u)})

Neighbors(v) == Range(adj(graph, v))

Ascending(s) == \A i, j \in DOMAIN s : i < j => s[i] < s[j]

\* C1: the CC of a graph gives every vertex one id in [0, K); two vertices
\* share an id iff a path of edges joins them; id(v) is the number of
\* components whose smallest vertex is below the smallest vertex of v's
\* component (first-discovery order); get_components lists the components
\* in that order, each in ascending vertex order.
C1_ComponentsLabelledInDiscoveryOrder ==
    cc.count > 0 =>
        LET Verts == 0 .. graph.V - 1
            comps == get_components(cc)
        IN  /\ DOMAIN cc.id = Verts
            /\ \A v \in Verts : cc.id[v] \in 0 .. cc.count - 1
            /\ \A v, w \in Verts : (cc.id[v] = cc.id[w]) <=> PathJoins(v, w)
            /\ \A v \in Verts :
                   cc.id[v] = Cardinality({Leader(u) : u \in
                                  {x \in Verts : Leader(x) < Leader(v)}})
            /\ Len(comps) = cc.count
            /\ \A i \in DOMAIN comps :
                   /\ comps[i] # <<>>
                   /\ Ascending(comps[i])
                   /\ \A k \in DOMAIN comps[i] : cc.id[comps[i][k]] = i - 1
            /\ \A i, j \in DOMAIN comps :
                   i < j => comps[i][1] < comps[j][1]
            /\ \A v \in Verts : \E i \in DOMAIN comps : v \in Range(comps[i])

\* C1 witness: vertices 0 and 2 joined, vertex 1 apart, so the second
\* component is discovered between two members of the first.
C1_Witness ==
    /\ cc.count = 2
    /\ graph.V = 3
    /\ <<0, 2>> \in graph.adj
    /\ cc.id[0] = 0 /\ cc.id[1] = 1 /\ cc.id[2] = 0

C4_Inv ==
    graph.V > 0 =>
        LET Verts == 0 .. graph.V - 1
        IN  /\ \A v, w \in Verts : (w \in Neighbors(v)) <=> (v \in Neighbors(w))
            /\ \A v, w \in Verts : (w \in Neighbors(v)) <=> ({v, w} \in added)
            /\ graph.E = Cardinality(added)

C4_Step ==
    /\ graph.V > 0 => graph'.V = graph.V
    /\ last'.op = "add_edge" =>
           LET v == last'.v
               w == last'.w
           IN  IF {v, w} \notin added
               THEN /\ graph'.E = graph.E + 1
                    /\ w \in Range(adj(graph', v))
                    /\ v \in Range(adj(graph', w))
               ELSE /\ graph'.E = graph.E
                    /\ \A u \in 0 .. graph.V - 1 : adj(graph', u) = adj(graph, u)

\* C4: after create(n), n > 0, and any add_edge calls on vertices in
\* 0 .. n-1: V stays n, the adjacency is symmetric, E is the number of
\* distinct unordered pairs added; adding a new pair raises E by one and
\* makes each endpoint a neighbour of the other, adding a present pair (in
\* either orientation) changes neither E nor any neighbour list.
C4_EdgeCountAndSymmetry == []C4_Inv /\ [][C4_Step]_vars

\* C4 witness: a pair already present was added again, with other edges
\* in the graph.
C4_Witness ==
    /\ last.op = "add_edge"
    /\ ~last.changed
    /\ last.v # last.w
    /\ graph.E = 2
    /\ Cardinality(graph.adj) = 4

OutOfRange(i) == i \notin 0 .. graph.V - 1

\* C8: add_edge with a vertex outside 0 .. V-1 (negative ones included)
\* fails and leaves E and the neighbour lists unchanged; id(v) with v
\* outside 0 .. V-1 fails instead of returning an id.
C8_OutOfRangeIndexRejected ==
    [][/\ (last'.op = "add_edge" /\ (OutOfRange(last'.v) \/ OutOfRange(last'.w)))
          => (last'.res # "ok" /\ graph' = graph)
       /\ (last'.op = "id" /\ OutOfRange(last'.v)) => last'.res # "ok"]_vars

\* ------------------------------------------------------------ SpecMasked
Cells(n_times, n_spaces) == (0 .. n_times - 1) \X (0 .. n_spaces - 1)

\* The symmetric boolean matrices of size n x n, as their non-zero cells.
SymmetricAdjacencies(n) ==
    {A \in SUBSET ((0 .. n - 1) \X (0 .. n - 1)) :
        \A p \in A : <<p[2], p[1]>> \in A}

\* grid_connectivity of test_graphs.py: sensors 0 - 1 - 2 - 3 in a row.
grid_connectivity ==
    {<<0, 1>>, <<1, 0>>, <<1, 2>>, <<2, 1>>, <<2, 3>>, <<3, 2>>}

\* The same four sensors closed into a ring.
ring_connectivity == grid_connectivity \cup {<<0, 3>>, <<3, 0>>}

\* np.ones((n_times, n_spaces), dtype=bool), optionally with mask[1, :] = False
ones_mask(n_times, n_spaces) ==
    [n_times |-> n_times, n_spaces |-> n_spaces,
     at |-> [c \in Cells(n_times, n_spaces) |-> 1]]

ones_mask_row1_off(n_times, n_spaces) ==
    [n_times |-> n_times, n_spaces |-> n_spaces,
     at |-> [c \in Cells(n_times, n_spaces) |-> IF c[1] = 1 THEN 0 ELSE 1]]

InitMasked ==
    /\ \/ \E n_times \in 1 .. MaxTimes, n_spaces \in 1 .. MaxSpaces :
              /\ mask \in {[n_times |-> n_times, n_spaces |-> n_spaces, at |-> f] :
                              f \in [Cells(n_times, n_spaces) -> {-1, 0, 1}]}
              /\ spatial_adjacency \in SymmetricAdjacencies(n_spaces)
       \/ /\ mask \in {ones_mask(2, 4), ones_mask_row1_off(3, 4)}
          /\ spatial_adjacency \in {grid_connectivity, ring_connectivity}
    /\ mstag = NoMstag
    /\ mscc = NoCC
    /\ pcBuild = "new"
    /\ IdleGraph /\ IdleThr /\ IdleOpt /\ IdleDriver /\ IdleShuffle /\ IdleAsm

\* mstag = MaskedSpatioTemporalAdjacencyGraph(spatial_adjacency, mask);
\* Graph.__init__ raises ValueError when the mask has no active cell.
Build ==
    /\ pcBuild = "new"
    /\ IF nonzero(mask) = <<>>
       THEN pcBuild' = "ValueError" /\ UNCHANGED mstag
       ELSE /\ mstag' = MaskedSpatioTemporalAdjacencyGraph(spatial_adjacency, mask)
            /\ pcBuild' = "built"
    /\ UNCHANGED <<varsNotMasked, spatial_adjacency, mask, mscc>>

\* CC(mstag)
Cluster ==
    /\ pcBuild = "built"
    /\ mscc' = connected_components(mstag.adj, mstag.V)
    /\ pcBuild' = "clustered"
    /\ UNCHANGED <<varsNotMasked, spatial_adjacency, mask, mstag>>

NextMasked == Build \/ Cluster

SpecMasked == InitMasked /\ [][NextMasked]_vars

\* Two cells the claim joins: the same mask value, and either the same time
\* and adjacent spaces or the same space and times one apart.
Linked(c, d) ==
    /\ mask.at[c] = mask.at[d]
    /\ \/ c[1] = d[1] /\ <<c[2], d[2]>> \in spatial_adjacency
       \/ c[2] = d[2] /\ (c[1] - d[1] = 1 \/ d[1] - c[1] = 1)

ActiveCells == {c \in Cells(mask.n_times, mask.n_spaces) : mask.at[c] # 0}

LinkedPairs == {p \in SUBSET ActiveCells : \E c, d \in p : c # d /\ p = {c, d} /\ Linked(c, d)}

\* Active cells whose sensor is marked adjacent to itself.
SelfAdjacentCells == {c \in ActiveCells : <<c[2], c[2]>> \in spatial_adjacency}

Built == pcBuild \in {"built", "clustered"}

EdgesAsClaimed ==
    /\ mstag.V = Cardinality(ActiveCells)
    /\ \A i, j \in 0 .. mstag.V - 1 :
           i # j => (<<i, j>> \in mstag.adj
                        <=> Linked(mstag.map_lin2mat[i], mstag.map_lin2mat[j]))

NoMixedComponent ==
    pcBuild = "clustered" =>
        \A i, j \in 0 .. mstag.V - 1 :
            mscc.id[i] = mscc.id[j] =>
                mask.at[mstag.map_lin2mat[i]] = mask.at[mstag.map_lin2mat[j]]

\* C2 as stated: two distinct vertices are joined iff their cells carry the
\* same mask value and are spatial neighbours at one time or temporal
\* neighbours at one space; E is the number of such unordered pairs; no
\* component holds both a +1 and a -1 cell.
C2_EdgesAndCountAsStated ==
    /\ Built => EdgesAsClaimed /\ mstag.E = Cardinality(LinkedPairs)
    /\ NoMixedComponent

\* C2 amended: as stated, except that E also counts one self-loop for every
\* active cell whose sensor the adjacency matrix marks adjacent to itself.
C2_EdgesAndCountWithSelfLoops ==
    /\ Built => /\ EdgesAsClaimed
                /\ mstag.E = Cardinality(LinkedPairs)
                                + Cardinality(SelfAdjacentCells)
    /\ NoMixedComponent

\* C2 witness: a +1 cell next to a -1 cell in space, a pair of +1 cells one
\* time step apart, clustered into more than one component.
C2_Witness ==
    /\ pcBuild = "clustered"
    /\ mask.n_times >= 2 /\ mask.n_spaces = 2
    /\ mask.at[<<0, 0>>] = 1 /\ mask.at[<<0, 1>>] = -1 /\ mask.at[<<1, 0>>] = 1
    /\ <<0, 1>> \in spatial_adjacency
    /\ mstag.E >= 1
    /\ mscc.count >= 2

FixtureFacts(A, m, E, count) ==
    (spatial_adjacency = A /\ mask = m) =>
        /\ Built => mstag.V = 8 /\ mstag.E = E
        /\ pcBuild = "clustered" => mscc.count = count

\* C7 as stated, with the four sensors in a ring.
C7_RingFixture ==
    /\ FixtureFacts(ring_connectivity, ones_mask(2, 4), 10, 1)
    /\ FixtureFacts(ring_connectivity, ones_mask_row1_off(3, 4), 6, 2)

\* C7 amended: with the four sensors in a row (0 - 1 - 2 - 3, the
\* adjacency of the test), the fully active 2x4 mask gives V = 8, E = 10
\* and 1 component; the 3x4 mask with time row 1 inactive gives V = 8,
\* E = 6 and 2 components.
C7_RowFixture ==
    /\ FixtureFacts(grid_connectivity, ones_mask(2, 4), 10, 1)
    /\ FixtureFacts(grid_connectivity, ones_mask_row1_off(3, 4), 6, 2)

\* C7 witness: the second fixture built and clustered.
C7_Witness ==
    /\ pcBuild = "clustered"
    /\ spatial_adjacency = grid_connectivity
    /\ mask = ones_mask_row1_off(3, 4)
    /\ mstag.E = 6

\* --------------------------------------------------------- SpecThreshold
Tails == {1, -1, 0}

\* The data of the modelled driver run: one time point, two sensors.
DataShape == <<1, 2>>

DataCells == Range(product(DataShape[1], DataShape[2]))

InitThreshold ==
    /\ tail \in Tails
    /\ thresh \in -MaxThresh .. MaxThresh
    /\ t_map \in [DataCells -> -MaxCellStat .. MaxCellStat]
    /\ thr_mask = <<>>
    /\ pcThr = "new"
    /\ IdleGraph /\ IdleMasked /\ IdleDriver /\ IdleShuffle /\ IdleAsm

\* The mask find_clusters builds for one key.
ApplyThreshold ==
    /\ pcThr = "new"
    /\ thr_mask' = threshold_mask(t_map, DataShape, thresh, tail).at
    /\ pcThr' = "masked"
    /\ UNCHANGED <<varsNotThr, varsOpt, t_map>>

NextThreshold == ApplyThreshold

SpecThreshold == InitThreshold /\ [][NextThreshold]_vars

\* The mask entry the claim states for a cell of value x.
StatedMaskValue(x) ==
    IF tail = 1 THEN (IF x > thresh THEN 1 ELSE 0)
    ELSE IF tail = -1 THEN (IF x < thresh THEN -1 ELSE 0)
    ELSE IF x > thresh THEN 1
    ELSE IF x < -thresh THEN -1
    ELSE 0

\* The cell satisfies the threshold condition of the tail.
MeetsCondition(x) ==
    IF tail = 1 THEN x > thresh
    ELSE IF tail = -1 THEN x < thresh
    ELSE x > thresh \/ x < -thresh

\* C9 as stated: tail=+1 gives +1 where x > thresh; tail=-1 gives -1 where
\* x < thresh; tail=0 gives +1 where x > thresh, -1 where x < -thresh; 0
\* otherwise. A value equal to the threshold is inactive, and a cell is
\* active iff it meets the tail's condition.
C9_MaskAsStated ==
    pcThr = "masked" =>
        \A c \in DataCells :
            /\ thr_mask[c] = StatedMaskValue(t_map[c])
            /\ t_map[c] = thresh => thr_mask[c] = 0
            /\ thr_mask[c] # 0 <=> MeetsCondition(t_map[c])

\* C9 amended: tail=+1 gives +1 where x > thresh; tail=-1 gives +1 (not -1)
\* where x < thresh; tail=0 gives [x > thresh] - [x < -thresh], which for
\* thresh >= 0 is +1 where x > thresh, -1 where x < -thresh and 0
\* otherwise, and for thresh < 0 is 0 where both conditions hold. A value
\* equal to the threshold is inactive, and a cell is active iff it meets
\* the tail's condition, for tail = +1, tail = -1 and for tail = 0 with
\* thresh >= 0.
C9_MaskAsBuilt ==
    pcThr = "masked" =>
        \A c \in DataCells :
            LET x == t_map[c]
                m == thr_mask[c]
            IN  /\ tail = 1 => m = (IF x > thresh THEN 1 ELSE 0)
                /\ tail = -1 => m = (IF x < thresh THEN 1 ELSE 0)
                /\ tail = 0 =>
                       m = (IF x > thresh /\ ~(x < -thresh) THEN 1
                            ELSE IF x < -thresh /\ ~(x > thresh) THEN -1
                            ELSE 0)
                /\ (tail # 0 \/ thresh >= 0) =>
                       /\ x = thresh => m = 0
                       /\ m # 0 <=> MeetsCondition(x)

\* C9 witness: a two-tailed mask with a cell on the threshold, inactive,
\* beside a cell below the negated threshold.
C9_Witness ==
    /\ pcThr = "masked"
    /\ tail = 0
    /\ thresh = 1
    /\ t_map[<<0, 0>>] = 1 /\ thr_mask[<<0, 0>>] = 0
    /\ t_map[<<0, 1>>] = -2 /\ thr_mask[<<0, 1>>] = -1

\* ------------------------------------------------------------ SpecDriver
\* Spatial adjacencies of the two sensors: apart, or neighbours.
DataAdjacencies == {{}, {<<0, 1>>, <<1, 0>>}}

TMaps == [DataCells -> -MaxStat .. MaxStat]

\* Per adjacency, threshold and tail: the cluster statistics find_clusters
\* can return for one key, over all the maps the statistic function can
\* produce.
ClusterStatsOf ==
    [A \in DataAdjacencies, thr \in -MaxThresh .. MaxThresh, tl \in Tails |->
        {find_clusters_key(tm, DataShape, A, thr, tl) : tm \in TMaps}]

\* The cluster_stats dictionaries find_clusters can return.
find_clusters(A, thr, tl) == [Keys -> ClusterStatsOf[A, thr, tl]]

InitDriver ==
    /\ tail \in Tails
    /\ thresh \in -MaxThresh .. MaxThresh
    /\ adjacency \in DataAdjacencies
    /\ n_perm \in 1 .. MaxPerm
    /\ i_perm = 0
    /\ cluster_stats_orig = <<>>
    /\ cluster_stats = <<>>
    /\ cluster_stats_H0 = <<>>
    /\ pvalues = <<>>
    /\ pc = "ComputeObserved"
    /\ IdleGraph /\ IdleMasked /\ IdleThr /\ IdleShuffle /\ IdleAsm

\* find_clusters on the unpermuted regressors, then the empty null
\* distributions.
ComputeObserved ==
    /\ pc = "ComputeObserved"
    /\ \E stats \in find_clusters(adjacency, thresh, tail) :
           cluster_stats_orig' = stats
    /\ cluster_stats_H0' = [key \in Keys |-> <<>>]
    /\ pc' = "Permute"
    /\ UNCHANGED <<varsNotDriver, varsOpt, adjacency, n_perm, i_perm,
                   cluster_stats, pvalues>>

\* One pass of the permutation loop.
Permute ==
    /\ pc = "Permute"
    /\ \E stats \in find_clusters(adjacency, thresh, tail) :
           /\ cluster_stats' = stats
           /\ cluster_stats_H0' =
                  append_null_entries(cluster_stats_H0, stats, 1, tail)
    /\ i_perm' = i_perm + 1
    /\ pc' = IF i_perm + 1 = n_perm THEN "Aggregate" ELSE "Permute"
    /\ UNCHANGED <<varsNotDriver, varsOpt, adjacency, n_perm,
                   cluster_stats_orig, pvalues>>

\* The statistic function raises during a find_clusters call: the
\* exception leaves the driver.
StatFunRaises ==
    /\ pc \in {"ComputeObserved", "Permute"}
    /\ pc' = "Raised"
    /\ UNCHANGED <<varsNotDriver, varsOpt, adjacency, n_perm, i_perm,
                   cluster_stats_orig, cluster_stats, cluster_stats_H0,
                   pvalues>>

\* The p-values of the observed clusters.
Aggregate ==
    /\ pc = "Aggregate"
    /\ pvalues' = aggregate(cluster_stats_orig, cluster_stats_H0, tail)
    /\ pc' = "Done"
    /\ UNCHANGED <<varsNotDriver, varsOpt, adjacency, n_perm, i_perm,
                   cluster_stats_orig, cluster_stats, cluster_stats_H0>>

NextDriver == ComputeObserved \/ Permute \/ StatFunRaises \/ Aggregate

SpecDriver == InitDriver /\ [][NextDriver]_vars

\* ---------------------------------------------- properties of the driver
\* e is the entry the claim states for a permutation with statistics stats.
StatedEntry(stats, e) ==
    IF stats = <<>> THEN e = 0
    ELSE IF tail = 1
         THEN e \in Range(stats) /\ \A x \in Range(stats) : x <= e
    ELSE IF tail = -1
         THEN e \in Range(stats) /\ \A x \in Range(stats) : e <= x
    ELSE /\ \E x \in Range(stats) : e = Abs(x)
         /\ \A x \in Range(stats) : Abs(x) <= e

IsPrefix(s, t) == Len(s) <= Len(t) /\ \A i \in DOMAIN s : s[i] = t[i]

C5_Inv ==
    DOMAIN cluster_stats_H0 = Keys =>
        \A key \in Keys :
            /\ Len(cluster_stats_H0[key]) = i_perm
            /\ pc = "Aggregate" => Len(cluster_stats_H0[key]) = n_perm
            /\ i_perm > 0 =>
                   StatedEntry(cluster_stats[key], cluster_stats_H0[key][i_perm])

C5_Step ==
    /\ DOMAIN cluster_stats_H0 = Keys =>
           \A key \in Keys : IsPrefix(cluster_stats_H0[key], cluster_stats_H0'[key])
    /\ pc' = "Raised" => cluster_stats_H0' = cluster_stats_H0

\* C5: during the permutation loop every key's null distribution holds one
\* entry per completed permutation, in permutation order (length n_perm
\* when aggregation starts); the entry is the maximum cluster statistic of
\* the permutation for tail=+1, the minimum for tail=-1, the maximum
\* absolute one for tail=0, and 0 when the key has no cluster; a
\* permutation whose statistic evaluation fails appends nothing and leaves
\* the recorded entries unchanged.
C5_OneEntryPerPermutation == []C5_Inv /\ [][C5_Step]_vars

\* C5 witness: two permutations done, two-tailed; the second gave one key a
\* negative and a positive cluster and the other key none.
C5_Witness ==
    /\ pc = "Aggregate"
    /\ tail = 0
    /\ i_perm = 2
    /\ cluster_stats["confidence"] = <<-1, 1>>
    /\ cluster_stats_H0["confidence"] = <<0, 1>>
    /\ cluster_stats["is_correct"] = <<>>
    /\ cluster_stats_H0["is_correct"] = <<1, 0>>

\* C3: for tail=0 the p-value of an observed cluster statistic c is the
\* number of null entries h with |h| > |c| over the length of the null
\* distribution; hence it does not increase with |c|.
C3_TwoTailedPValueUsesMagnitude ==
    (pc = "Done" /\ tail = 0) =>
        \A key \in Keys :
            LET H0 == cluster_stats_H0[key]
                c == cluster_stats_orig[key]
                p == pvalues[key]
            IN  /\ \A i \in DOMAIN c :
                       /\ p[i].den = Len(H0)
                       /\ p[i].num = Cardinality({k \in DOMAIN H0 :
                                                    Abs(H0[k]) > Abs(c[i])})
                /\ \A i, j \in DOMAIN c :
                       Abs(c[i]) <= Abs(c[j]) => p[i].num >= p[j].num

\* ----------------------------------------------------------- SpecShuffle
\* The orderings of a set of row positions.
Orderings(S) ==
    {p \in [1 .. Cardinality(S) -> S] : \A i, j \in DOMAIN p : i # j => p[i] # p[j]}

\* np.concatenate(sampled_indices): the groups' samples in group order.
RECURSIVE concatenate(_, _, _)
concatenate(sampled, groups, k) ==
    IF k > Len(groups) THEN <<>>
    ELSE sampled[groups[k]] \o concatenate(sampled, groups, k + 1)

\* regressors.groupby(group_key).sample(frac=1).reset_index(drop=True): for
\* each group, in ascending order of the group key, all its rows in a
\* random order; the results as the original row at each new position.
groupby_sample(table) ==
    LET groups == SortedSeq(Range(table))
        indices == [g \in Range(table) |-> {i \in DOMAIN table : table[i] = g}]
    IN  {concatenate(sampled, groups, 1) :
            sampled \in {f \in [Range(table) -> UNION {Orderings(indices[g]) :
                                                       g \in Range(table)}] :
                            \A g \in Range(table) : f[g] \in Orderings(indices[g])}}

InitShuffle ==
    /\ \E n \in 1 .. MaxRows : regressors \in [1 .. n -> 1 .. MaxGroups]
    /\ regressors_perm = <<>>
    /\ pcShuffle = "new"
    /\ IdleGraph /\ IdleMasked /\ IdleThr /\ IdleOpt /\ IdleDriver /\ IdleAsm

\* regressors_perm = regressors.groupby(...).sample(frac=1).reset_index(...)
Shuffle ==
    /\ pcShuffle \in {"new", "permuted"}
    /\ regressors_perm' \in groupby_sample(regressors)
    /\ pcShuffle' = "permuted"
    /\ UNCHANGED <<varsNotShuffle, regressors>>

NextShuffle == Shuffle

SpecShuffle == InitShuffle /\ [][NextShuffle]_vars

\* C6: the permuted table holds every original row exactly once, and the
\* row at each position has the group key of the original row at that
\* position, whatever the order of the rows of the table.
C6_ShuffleWithinGroupsByPosition ==
    pcShuffle = "permuted" =>
        /\ Len(regressors_perm) = Len(regressors)
        /\ \A r \in DOMAIN regressors :
               Cardinality({i \in DOMAIN regressors_perm :
                               regressors_perm[i] = r}) = 1
        /\ \A i \in DOMAIN regressors :
               regressors[regressors_perm[i]] = regressors[i]

\* ---------------------------------------------------------- SpecAssemble
\* Parallel(...)(...) returning the results in completion order.
Parallel_completion_order(done, sf, shp) ==
    [k \in DOMAIN done |-> sf[product(shp[1], shp[2])[done[k]]]]

\* Parallel(n_jobs=-1)(delayed(stat_fun)(...) for i_time, i_space in
\* product(...)): the result of task k at position k, whatever the order
\* `done` in which the workers finished.
Parallel(done, sf, shp) ==
    [k \in DOMAIN done |-> sf[product(shp[1], shp[2])[k]]]

\* t_maps[key][i_time, i_space] = t_vals[k][key] over enumerate(product(...))
assemble(t_vals, shp) ==
    LET cells == product(shp[1], shp[2])
    IN  [key \in Keys |->
            [c \in Range(cells) |->
                t_vals[CHOOSE k \in DOMAIN cells : cells[k] = c][key]]]

InitAssemble ==
    /\ data_shape \in (1 .. MaxMapTimes) \X (1 .. MaxMapSpaces)
    /\ stat_fun \in [Cells(data_shape[1], data_shape[2]) ->
                        [Keys -> 0 .. MaxTVal]]
    /\ completed = <<>>
    /\ t_maps = <<>>
    /\ pcAsm = "running"
    /\ IdleGraph /\ IdleMasked /\ IdleThr /\ IdleOpt /\ IdleDriver /\ IdleShuffle

\* A worker finishes task k.
Finish(k) ==
    /\ pcAsm = "running"
    /\ k \notin Range(completed)
    /\ completed' = Append(completed, k)
    /\ UNCHANGED <<varsNotAsm, data_shape, stat_fun, t_maps, pcAsm>>

\* All tasks are done: Parallel returns and the maps are filled.
Assemble ==
    /\ pcAsm = "running"
    /\ Len(completed) = data_shape[1] * data_shape[2]
    /\ t_maps' = assemble(Parallel(completed, stat_fun, data_shape), data_shape)
    /\ pcAsm' = "assembled"
    /\ UNCHANGED <<varsNotAsm, data_shape, stat_fun, completed>>

NextAssemble ==
    \/ \E k \in 1 .. data_shape[1] * data_shape[2] : Finish(k)
    \/ Assemble

SpecAssemble == InitAssemble /\ [][NextAssemble]_vars

\* C10: whatever the order in which the workers finish, the assembled map
\* of every key holds at (t, s) the value the statistic function returned
\* for the data slice of (t, s).
C10_MapAssembledByCoordinate ==
    pcAsm = "assembled" =>
        \A key \in Keys :
            \A c \in Cells(data_shape[1], data_shape[2]) :
                t_maps[key][c] = stat_fun[c][key]

\* C10 witness: a 2 x 2 map whose tasks finished in reverse order, with
\* differing values in the first and last cell.
C10_Witness ==
    /\ pcAsm = "assembled"
    /\ data_shape = <<2, 2>>
    /\ completed = <<4, 3, 2, 1>>
    /\ stat_fun[<<0, 0>>]["confidence"] # stat_fun[<<1, 1>>]["confidence"]

====
